---- MODULE Spec2Model ----
(***************************************************************************)
(* datasette-embeddings: shadow tables of embedding vectors, the batch     *)
(* enrichment that fills them, the semantic-search view and the table      *)
(* action, modelled from src/datasette_embeddings/__init__.py.             *)
(*                                                                         *)
(* A Python str is a sequence of one-character strings, a bytes value a    *)
(* sequence of integers 0..255, so that replace, strip, format and the     *)
(* struct packing are computed and not assumed.                            *)
(***************************************************************************)
EXTENDS Integers, Sequences, FiniteSets, TLC

(* ------------------------------ bounds --------------------------------- *)

\* Longest vector the embedding service answers with (the code accepts any
\* length the service returns).
MaxDim == 2

\* Most rows the caller hands enrich_batch in one batch.
MaxBatch == 2

(* --------------------------- str operations ---------------------------- *)

\* Whether p occurs in s at index i.
MatchAt(s, i, p) ==
    /\ i + Len(p) - 1 <= Len(s)
    /\ SubSeq(s, i, i + Len(p) - 1) = p

\* str.startswith
startswith(s, p) == MatchAt(s, 1, p)

\* str.replace(old, new) for a non-empty old: every non-overlapping
\* occurrence, left to right; the text put in is not scanned again.
Min(S) == CHOOSE m \in S : \A n \in S : m <= n

RECURSIVE replaceFrom(_, _, _, _)
replaceFrom(s, i, old, new) ==
    LET found == {k \in i..Len(s) : MatchAt(s, k, old)}
    IN  IF found = {} THEN SubSeq(s, i, Len(s))
        ELSE SubSeq(s, i, Min(found) - 1) \o new
                 \o replaceFrom(s, Min(found) + Len(old), old, new)

replace(s, old, new) == replaceFrom(s, 1, old, new)

Whitespace == {" ", "\n", "\t"}

\* str.strip()
RECURSIVE lstrip(_)
lstrip(s) ==
    IF s # <<>> /\ Head(s) \in Whitespace THEN lstrip(Tail(s)) ELSE s

RECURSIVE rstrip(_)
rstrip(s) ==
    IF s # <<>> /\ s[Len(s)] \in Whitespace
    THEN rstrip(SubSeq(s, 1, Len(s) - 1)) ELSE s

strip(s) == rstrip(lstrip(s))

\* sep.join(parts)
RECURSIVE join(_, _)
join(sep, parts) ==
    IF parts = <<>> THEN <<>>
    ELSE IF Len(parts) = 1 THEN parts[1]
    ELSE parts[1] \o sep \o join(sep, Tail(parts))

\* str(n) of an int
Digits == <<"0", "1", "2", "3", "4", "5", "6", "7", "8", "9">>

RECURSIVE str_nat(_)
str_nat(n) ==
    IF n < 10 THEN <<Digits[n + 1]>>
    ELSE str_nat(n \div 10) \o <<Digits[(n % 10) + 1]>>

str_int(n) == IF n < 0 THEN <<"-">> \o str_nat(0 - n) ELSE str_nat(n)

\* s.split(sep) for a one-character sep
RECURSIVE split(_, _)
split(s, sep) ==
    LET found == {i \in 1..Len(s) : s[i] = sep}
    IN  IF found = {} THEN <<s>>
        ELSE <<SubSeq(s, 1, Min(found) - 1)>>
                 \o split(SubSeq(s, Min(found) + 1, Len(s)), sep)

\* textwrap.dedent: whitespace-only lines become empty, and the longest run
\* of leading blanks common to the other lines is cut from each of them.
LeadingBlanks(line) ==
    LET inked == {i \in 1..Len(line) : line[i] # " "}
    IN  IF inked = {} THEN Len(line) ELSE Min(inked) - 1

IsBlankLine(line) == \A i \in 1..Len(line) : line[i] \in {" ", "\t"}

dedent(text) ==
    LET lines == split(text, "\n")
        inked == {i \in 1..Len(lines) : ~IsBlankLine(lines[i])}
        margin == IF inked = {} THEN 0
                  ELSE Min({LeadingBlanks(lines[i]) : i \in inked})
        cut == [i \in 1..Len(lines) |->
                   IF i \in inked
                   THEN SubSeq(lines[i], margin + 1, Len(lines[i]))
                   ELSE <<>>]
    IN  join(<<"\n">>, cut)

\* str.format(**fields): one pass, each {name} replaced by fields[name]; the
\* text put in is not scanned again.
RECURSIVE formatFrom(_, _, _)
formatFrom(s, i, fields) ==
    LET opens == {k \in i..Len(s) : s[k] = "{"}
        open == Min(opens)
        close == Min({k \in (open + 1)..Len(s) : s[k] = "}"})
    IN  IF opens = {} THEN SubSeq(s, i, Len(s))
        ELSE SubSeq(s, i, open - 1) \o fields[SubSeq(s, open + 1, close - 1)]
                 \o formatFrom(s, close + 1, fields)

format(s, fields) == formatFrom(s, 1, fields)

\* bytes.hex().upper()
HexDigits ==
    <<"0", "1", "2", "3", "4", "5", "6", "7", "8", "9", "A", "B", "C", "D", "E", "F">>

RECURSIVE hex_upper(_)
hex_upper(blob) ==
    IF blob = <<>> THEN <<>>
    ELSE <<HexDigits[(Head(blob) \div 16) + 1], HexDigits[(Head(blob) % 16) + 1]>>
             \o hex_upper(Tail(blob))

(* ------------------------------ literals ------------------------------- *)

MODEL_1 ==
    <<"t", "e", "x", "t", "-", "e", "m", "b", "e", "d", "d", "i", "n", "g", "-", "3", "-",
    "l", "a", "r", "g", "e", "-", "2", "5", "6">>
MODEL_2 ==
    <<"t", "e", "x", "t", "-", "e", "m", "b", "e", "d", "d", "i", "n", "g", "-", "3", "-",
    "s", "m", "a", "l", "l", "-", "5", "1", "2">>
MODEL_3 ==
    <<"t", "e", "x", "t", "-", "e", "m", "b", "e", "d", "d", "i", "n", "g", "-", "3", "-",
    "l", "a", "r", "g", "e", "-", "1", "0", "2", "4">>
MODEL_4 ==
    <<"t", "e", "x", "t", "-", "e", "m", "b", "e", "d", "d", "i", "n", "g", "-", "3", "-",
    "s", "m", "a", "l", "l">>
MODEL_5 ==
    <<"t", "e", "x", "t", "-", "e", "m", "b", "e", "d", "d", "i", "n", "g", "-", "3", "-",
    "l", "a", "r", "g", "e">>

MODEL_NAMES == <<MODEL_1, MODEL_2, MODEL_3, MODEL_4, MODEL_5>>

DEFAULT_MODEL == MODEL_2

IsModelName(m) == \E i \in 1..Len(MODEL_NAMES) : MODEL_NAMES[i] = m

\* The prefix of an embedding column's name.
EMB_PREFIX ==
    <<"e", "m", "b", "_">>
\* The prefix of a shadow table's name.
SHADOW_PREFIX ==
    <<"_", "e", "m", "b", "e", "d", "d", "i", "n", "g", "s", "_">>
\* The text handed to textwrap.dedent in embeddings_semantic_search.
SQL_TEMPLATE ==
    <<"\n", " ", " ", " ", " ", " ", " ", " ", " ", "s", "e", "l", "e", "c", "t", "\n", " ",
    " ", " ", " ", " ", " ", " ", " ", " ", " ", "\"", "{", "t", "a", "b", "l", "e", "}",
    "\"", ".", "*", ",", "\n", " ", " ", " ", " ", " ", " ", " ", " ", " ", " ", "e", "m",
    "b", "e", "d", "d", "i", "n", "g", "s", "_", "c", "o", "s", "i", "n", "e", "(", "\"",
    "_", "e", "m", "b", "e", "d", "d", "i", "n", "g", "s", "_", "{", "t", "a", "b", "l",
    "e", "}", "\"", ".", "\"", "{", "c", "o", "l", "u", "m", "n", "}", "\"", ",", " ", "u",
    "n", "h", "e", "x", "(", ":", "v", "e", "c", "t", "o", "r", ")", ")", " ", "a", "s",
    " ", "_", "s", "i", "m", "i", "l", "a", "r", "i", "t", "y", "\n", " ", " ", " ", " ",
    " ", " ", " ", " ", "f", "r", "o", "m", " ", "\"", "{", "t", "a", "b", "l", "e", "}",
    "\"", " ", "j", "o", "i", "n", " ", "\"", "_", "e", "m", "b", "e", "d", "d", "i", "n",
    "g", "s", "_", "{", "t", "a", "b", "l", "e", "}", "\"", "\n", " ", " ", " ", " ", " ",
    " ", " ", " ", "o", "n", " ", "{", "p", "k", "_", "j", "o", "i", "n", "}", "\n", " ",
    " ", " ", " ", " ", " ", " ", " ", "w", "h", "e", "r", "e", " ", "\"", "_", "e", "m",
    "b", "e", "d", "d", "i", "n", "g", "s", "_", "{", "t", "a", "b", "l", "e", "}", "\"",
    ".", "\"", "{", "c", "o", "l", "u", "m", "n", "}", "\"", " ", "i", "s", " ", "n", "o",
    "t", " ", "n", "u", "l", "l", "\n", " ", " ", " ", " ", " ", " ", " ", " ", "o", "r",
    "d", "e", "r", " ", "b", "y", " ", "_", "s", "i", "m", "i", "l", "a", "r", "i", "t",
    "y", " ", "d", "e", "s", "c", "\n", " ", " ", " ", " ", " ", " ", " ", " ">>
AND_SEP ==
    <<" ", "a", "n", "d", " ">>
EQ_SEP ==
    <<" ", "=", " ">>
F_table ==
    <<"t", "a", "b", "l", "e">>
F_column ==
    <<"c", "o", "l", "u", "m", "n">>
F_pk_join ==
    <<"p", "k", "_", "j", "o", "i", "n">>
DOT ==
    <<".">>
BRACES_OPEN_SP ==
    <<"{", "{", " ">>
BRACES_CLOSE_SP ==
    <<" ", "}", "}">>
BRACES_OPEN ==
    <<"{", "{">>
BRACES_CLOSE ==
    <<"}", "}">>

(* ------------------------------- values -------------------------------- *)

\* A Python / SQLite value: None (NULL), an int, a str, or bytes (a BLOB).
NONE == [t |-> "none"]

IntV(n) == [t |-> "int", i |-> n]

StrV(s) == [t |-> "str", s |-> s]

BytesV(b) == [t |-> "bytes", b |-> b]

\* Python truthiness, as `value or ""` tests it.
truthy(v) ==
    CASE v.t = "none" -> FALSE
      [] v.t = "int" -> v.i # 0
      [] v.t = "str" -> v.s # <<>>
      [] v.t = "bytes" -> v.b # <<>>

\* str(value) for the values a source row holds.
py_str(v) ==
    CASE v.t = "int" -> str_int(v.i)
      [] v.t = "str" -> v.s
      [] v.t = "none" -> <<"N", "o", "n", "e">>

\* A dict in insertion order is a sequence of <<key, value>> pairs.
dict_get(d, k) == d[CHOOSE i \in 1..Len(d) : d[i][1] = k][2]

\* The elements of a sequence.
Range(s) == {s[i] : i \in 1..Len(s)}

(* ------------------------ embedding column names ----------------------- *)

\* f"emb_{model.replace('-', '_')}"
column_name_of(model) == EMB_PREFIX \o replace(model, <<"-">>, <<"_">>)

\* f"_embeddings_{table}"
shadow_table_of(table) == SHADOW_PREFIX \o table

\* column.replace("emb_", "").replace("_", "-")
model_of_column(column) ==
    replace(replace(column, EMB_PREFIX, <<>>), <<"_">>, <<"-">>)

\* embedding_columns_for_table: the dict {column_name: model_name}, in the
\* shadow table's column order; `columns` are the shadow table's column
\* names.
embedding_columns_for_table(exists, columns) ==
    IF ~exists THEN <<>>
    ELSE LET emb_columns == SelectSeq(columns, LAMBDA c : startswith(c, EMB_PREFIX))
             kept == SelectSeq(emb_columns, LAMBDA c : IsModelName(model_of_column(c)))
         IN  [i \in 1..Len(kept) |-> <<kept[i], model_of_column(kept[i])>>]

(* ----------------------------- vector codec ---------------------------- *)

\* A float32 is the integer of its IEEE-754 bit pattern.
F_ONE == 127 * 8388608

F_HALF == 126 * 8388608

\* struct.pack("<f", x): the four bytes of the pattern, lowest first.
pack_f(bits) ==
    <<bits % 256, (bits \div 256) % 256, (bits \div 65536) % 256,
      (bits \div 16777216) % 256>>

\* struct.pack("<" + "f" * len(embedding), *embedding)
RECURSIVE encode_embedding(_)
encode_embedding(embedding) ==
    IF embedding = <<>> THEN <<>>
    ELSE pack_f(Head(embedding)) \o encode_embedding(Tail(embedding))

\* struct.unpack("<" + "f" * (len(binary) // 4), binary): struct.error unless
\* the length is a multiple of four.
RECURSIVE unpack_f(_)
unpack_f(binary) ==
    IF binary = <<>> THEN <<>>
    ELSE <<binary[1] + 256 * binary[2] + 65536 * binary[3] + 16777216 * binary[4]>>
             \o unpack_f(SubSeq(binary, 5, Len(binary)))

decode_embedding(binary) ==
    IF Len(binary) % 4 = 0
    THEN [ok |-> TRUE, value |-> unpack_f(binary)]
    ELSE [ok |-> FALSE, error |-> "struct.error"]

(* --------------------------- embedding client -------------------------- *)

isdigit(s) == s # <<>> /\ \A i \in 1..Len(s) : s[i] \in Range(Digits)

RECURSIVE int_of(_)
int_of(s) ==
    IF s = <<>> THEN 0
    ELSE 10 * int_of(SubSeq(s, 1, Len(s) - 1))
             + (CHOOSE d \in 0..9 : Digits[d + 1] = s[Len(s)])

\* The JSON body calculate_embedding posts: a trailing all-digit part of the
\* model identifier becomes "dimensions" and is cut from "model".
request_body(text, model) ==
    LET parts == split(model, "-")
        last_bit == parts[Len(parts)]
    IN  IF isdigit(last_bit)
        THEN [input |-> text,
              model |-> join(<<"-">>, SubSeq(parts, 1, Len(parts) - 1)),
              dimensions |-> int_of(last_bit)]
        ELSE [input |-> text, model |-> model]

\* What the remote service may answer: a failure status (raise_for_status
\* raises httpx.HTTPStatusError), or 200 with a vector of a length of its
\* own choosing.
vector_of(n) == [i \in 1..n |-> IF i % 2 = 1 THEN F_ONE ELSE F_HALF]

Responses ==
    {[status |-> 500]} \cup {[status |-> 200, embedding |-> vector_of(n)] : n \in 1..MaxDim}

(* ------------------------------ credentials ---------------------------- *)

\* A resolve_api_key that reads the stash with .get(): a token the stash
\* does not hold yields no key (the empty one here) and no error.
resolve_api_key_lenient(plugin_key, stash, token) ==
    IF plugin_key # <<>> THEN [ok |-> TRUE, api_key |-> plugin_key]
    ELSE IF token = <<>> THEN [ok |-> FALSE, error |-> "ApiKeyError"]
    ELSE IF ~stash.exists THEN [ok |-> FALSE, error |-> "ApiKeyError"]
    ELSE IF token \notin DOMAIN stash.keys THEN [ok |-> TRUE, api_key |-> <<>>]
    ELSE [ok |-> TRUE, api_key |-> stash.keys[token]]

\* resolve_api_key: plugin_key is plugin_config.get("api_key"), token is
\* config.get("api_key"); <<>> stands for a missing or empty one (both are
\* falsy). stash is the _enrichments_embeddings_stashed_keys attribute.
resolve_api_key(plugin_key, stash, token) ==
    IF plugin_key # <<>> THEN [ok |-> TRUE, api_key |-> plugin_key]
    ELSE IF token = <<>> THEN [ok |-> FALSE, error |-> "ApiKeyError"]
    ELSE IF ~stash.exists THEN [ok |-> FALSE, error |-> "ApiKeyError"]
    ELSE IF token \notin DOMAIN stash.keys THEN [ok |-> FALSE, error |-> "ApiKeyError"]
    ELSE [ok |-> TRUE, api_key |-> stash.keys[token]]

(* --------------------------- template rendering ------------------------ *)

\* str(value or "")
str_or_empty(value) == IF truthy(value) THEN py_str(value) ELSE <<>>

\* The loop over row.items() in enrich_batch: for each key in turn, both
\* spellings of its placeholder are replaced in the text so far.
RECURSIVE render(_, _)
render(text, items) ==
    IF items = <<>> THEN text
    ELSE LET key == items[1][1]
             value == str_or_empty(items[1][2])
         IN  render(replace(replace(text, BRACES_OPEN_SP \o key \o BRACES_CLOSE_SP, value),
                            BRACES_OPEN \o key \o BRACES_CLOSE, value),
                    Tail(items))

(* ------------------------------ search query --------------------------- *)

\* A join predicate that takes the primary-key columns last to first.
pk_join_reversed(table, pks) ==
    join(AND_SEP,
         [i \in 1..Len(pks) |->
             table \o DOT \o pks[Len(pks) + 1 - i] \o EQ_SEP
                 \o shadow_table_of(table) \o DOT \o pks[Len(pks) + 1 - i]])

\* " and ".join(f"{table}.{column} = _embeddings_{table}.{column}" ...)
pk_join_of(table, pks) ==
    join(AND_SEP,
         [i \in 1..Len(pks) |->
             table \o DOT \o pks[i] \o EQ_SEP \o shadow_table_of(table) \o DOT \o pks[i]])

\* textwrap.dedent(...).format(column=..., table=..., pk_join=...).strip()
DEDENTED_SQL_TEMPLATE == dedent(SQL_TEMPLATE)

search_sql(table, column, pk_join) ==
    LET names == {F_table, F_column, F_pk_join}
        fields == [f \in names |->
                      IF f = F_table THEN table
                      ELSE IF f = F_column THEN column ELSE pk_join]
    IN  strip(format(DEDENTED_SQL_TEMPLATE, fields))

(* --------------------------- names and texts --------------------------- *)

T_items ==
    <<"i", "t", "e", "m", "s">>
T_id ==
    <<"i", "d">>
T_name ==
    <<"n", "a", "m", "e">>
T_category ==
    <<"c", "a", "t", "e", "g", "o", "r", "y">>
T_cat ==
    <<"c", "a", "t">>
T_One ==
    <<"O", "n", "e">>
TEMPLATE_A ==
    <<"{", "{", " ", "n", "a", "m", "e", " ", "}", "}", " ", "{", "{", "i", "d", "}", "}">>
TEMPLATE_B ==
    <<"{", "{", " ", "i", "d", " ", "}", "}", "{", "{", " ", "n", "o", "p", "e", " ", "}",
    "}">>
KEY_CONFIG ==
    <<"s", "k", "-", "c">>
KEY_STASHED ==
    <<"s", "k", "-", "s">>
KEY_BAD ==
    <<"p", "w">>
TOKEN_1 ==
    <<"t", "1">>
TOKEN_2 ==
    <<"t", "2">>
SK_PREFIX ==
    <<"s", "k", "-">>
COL_RETIRED ==
    <<"e", "m", "b", "_", "a", "d", "a", "_", "0", "0", "2">>
COL_DOUBLED ==
    <<"e", "m", "b", "_", "e", "m", "b", "_", "t", "e", "x", "t", "_", "e", "m", "b", "e",
    "d", "d", "i", "n", "g", "_", "3", "_", "s", "m", "a", "l", "l">>
Q_TEXT ==
    <<"h", "i">>
Q_BLANK ==
    <<" ">>

(* ------------------------------ input sets ----------------------------- *)

\* The models a job's configuration names (two of the form's choices).
ConfigModels == {MODEL_1, MODEL_4}

\* config.get("api_key"): no reference token, the token the form stashed
\* the key under, or a token the stash never held.
ConfigTokens == {<<>>, TOKEN_1, TOKEN_2}

\* What a user types into the API key field.
FieldData == {KEY_STASHED, KEY_BAD}

\* The q field of a search POST.
Queries == {<<>>, Q_BLANK, Q_TEXT}

Workers == {"w1", "w2"}

(* -------------------------------- state -------------------------------- *)

VARIABLES
    plugin_api_key,   \* plugin_config.get("api_key"); <<>> when there is none
    stash,            \* datasette._enrichments_embeddings_stashed_keys
    source_columns,   \* the source table's columns, [name, type], in order
    source_pks,       \* the source table's primary-key column names, in order
    source_rows,      \* the source table's rows, each a function of column name
    shadow_exists,    \* whether _embeddings_<table> exists
    shadow_columns,   \* its columns, [name, type], in order
    shadow_pks,       \* its primary-key column names
    shadow_rows,      \* its rows, each a function of column name
    workers,          \* the invocations of initialize that are under way
    last              \* the last operation: its arguments and what it returned

vars ==
    <<plugin_api_key, stash, source_columns, source_pks, source_rows, shadow_exists,
      shadow_columns, shadow_pks, shadow_rows, workers, last>>

db_vars ==
    <<source_columns, source_pks, source_rows, shadow_exists, shadow_columns, shadow_pks,
      shadow_rows>>

\* The one source table of the model.
table == T_items

names_of(columns) == [i \in 1..Len(columns) |-> columns[i].name]

(* ----------------------------- initial state --------------------------- *)

\* items(id INTEGER PRIMARY KEY, name TEXT), as in the tests.
SingleKeySource ==
    [columns |-> <<[name |-> T_id, type |-> "INTEGER"], [name |-> T_name, type |-> "TEXT"]>>,
     pks |-> <<T_id>>,
     rows |-> <<[c \in {T_id, T_name} |-> IF c = T_id THEN IntV(0) ELSE NONE],
                [c \in {T_id, T_name} |-> IF c = T_id THEN IntV(1) ELSE StrV(T_One)]>>]

\* items(category TEXT, id INTEGER, name TEXT, PRIMARY KEY (category, id)).
CompoundKeySource ==
    [columns |-> <<[name |-> T_category, type |-> "TEXT"],
                   [name |-> T_id, type |-> "INTEGER"],
                   [name |-> T_name, type |-> "TEXT"]>>,
     pks |-> <<T_category, T_id>>,
     rows |-> <<[c \in {T_category, T_id, T_name} |->
                    IF c = T_category THEN StrV(T_cat)
                    ELSE IF c = T_id THEN IntV(1) ELSE StrV(T_One)],
                [c \in {T_category, T_id, T_name} |->
                    IF c = T_category THEN StrV(T_cat)
                    ELSE IF c = T_id THEN IntV(2) ELSE NONE]>>]

NoShadow == [exists |-> FALSE, emb_columns |-> <<>>]

Shadow(emb_columns) == [exists |-> TRUE, emb_columns |-> emb_columns]

\* The installations the model starts from: whether the plugin
\* configuration holds an api_key, the source table, and the shadow table
\* that is there before the first operation, if any, with its embedding
\* columns: of one or two of the supported models, or left by something
\* else (a retired model, a model whose own name starts with "emb-").
Installations ==
    {[api_key |-> KEY_CONFIG, source |-> SingleKeySource, shadow |-> NoShadow],
     [api_key |-> <<>>, source |-> CompoundKeySource, shadow |-> NoShadow],
     [api_key |-> KEY_CONFIG, source |-> CompoundKeySource,
      shadow |-> Shadow(<<column_name_of(MODEL_1)>>)],
     [api_key |-> <<>>, source |-> SingleKeySource,
      shadow |-> Shadow(<<column_name_of(MODEL_1)>>)],
     [api_key |-> KEY_CONFIG, source |-> SingleKeySource,
      shadow |-> Shadow(<<column_name_of(MODEL_1), column_name_of(MODEL_4)>>)],
     [api_key |-> KEY_CONFIG, source |-> SingleKeySource,
      shadow |-> Shadow(<<COL_RETIRED>>)],
     [api_key |-> KEY_CONFIG, source |-> CompoundKeySource,
      shadow |-> Shadow(<<COL_RETIRED, COL_DOUBLED>>)]}

type_of(columns, name) ==
    IF \E i \in 1..Len(columns) : columns[i].name = name
    THEN columns[CHOOSE i \in 1..Len(columns) : columns[i].name = name].type
    ELSE "INTEGER"

\* The columns create_shadow_table gives the shadow table: the source
\* table's primary keys with their types (INTEGER when unknown), then the
\* embedding columns as BLOBs.
shadow_columns_for(columns, pks, emb_columns) ==
    [i \in 1..Len(pks) |-> [name |-> pks[i], type |-> type_of(columns, pks[i])]]
        \o [i \in 1..Len(emb_columns) |-> [name |-> emb_columns[i], type |-> "BLOB"]]

NoWorker == [pc |-> "idle"]

Init ==
    /\ \E inst \in Installations :
        /\ plugin_api_key = inst.api_key
        /\ source_columns = inst.source.columns
        /\ source_pks = inst.source.pks
        /\ source_rows = inst.source.rows
        /\ shadow_exists = inst.shadow.exists
        /\ shadow_columns =
               IF inst.shadow.exists
               THEN shadow_columns_for(inst.source.columns, inst.source.pks,
                                       inst.shadow.emb_columns)
               ELSE <<>>
        /\ shadow_pks = IF inst.shadow.exists THEN inst.source.pks ELSE <<>>
    /\ stash = [exists |-> FALSE, keys |-> <<>>]
    /\ shadow_rows = {}
    /\ workers = [w \in Workers |-> NoWorker]
    /\ last = [op |-> "none"]

\* No operation's result is waiting for its caller.
Idle == last.op = "none"

\* The caller takes the result of the operation that ended.
return ==
    /\ last.op # "none"
    /\ last' = [op |-> "none"]
    /\ UNCHANGED <<plugin_api_key, stash, workers>>
    /\ UNCHANGED db_vars

(* ------------------------ shadow schema: initialize -------------------- *)

\* create_shadow_table(conn): sqlite_utils creates the table with the source
\* table's primary keys and the one embedding column.
create_shadow_table(column) ==
    /\ shadow_exists' = TRUE
    /\ shadow_columns' = shadow_columns_for(source_columns, source_pks, <<column>>)
    /\ shadow_pks' = source_pks
    /\ shadow_rows' = {}
    /\ UNCHANGED <<source_columns, source_pks, source_rows>>

\* add_column_if_not_exists(conn): db[table] is the source table, so the
\* test reads the source table's columns and the BLOB column is added to
\* the source table; its rows hold NULL in it.
add_column_if_not_exists(column) ==
    /\ IF column \notin Range(names_of(source_columns))
       THEN /\ source_columns' = Append(source_columns, [name |-> column, type |-> "BLOB"])
            /\ source_rows' =
                   [i \in 1..Len(source_rows) |->
                       [c \in DOMAIN source_rows[i] \cup {column} |->
                           IF c = column THEN NONE ELSE source_rows[i][c]]]
       ELSE UNCHANGED <<source_columns, source_rows>>
    /\ UNCHANGED <<source_pks, shadow_exists, shadow_columns, shadow_pks, shadow_rows>>

\* The branch initialize takes after `await db.table_exists(shadow_table)`.
branch_of(exists) == IF exists THEN "add" ELSE "create"

\* db.execute_write_fn(...) of the branch taken. Creating a table that
\* exists by now raises sqlite3.OperationalError (sqlite_utils creates
\* without IF NOT EXISTS) and changes nothing.
execute_write_fn(branch, column) ==
    IF branch = "create"
    THEN IF shadow_exists THEN UNCHANGED db_vars ELSE create_shadow_table(column)
    ELSE add_column_if_not_exists(column)

write_outcome(branch) ==
    IF branch = "create" /\ shadow_exists THEN "OperationalError" ELSE "ok"

\* initialize run from its existence check to the end of its write with
\* nothing in between.
initialize(model) ==
    LET branch == branch_of(shadow_exists)
    IN  /\ Idle
        /\ execute_write_fn(branch, column_name_of(model))
        /\ last' = [op |-> "initialize", model |-> model, branch |-> branch,
                    outcome |-> write_outcome(branch)]
        /\ UNCHANGED <<plugin_api_key, stash, workers>>

\* initialize up to its await of the write: the existence check is made and
\* the branch chosen.
initialize_check(w, model) ==
    /\ workers[w].pc # "write"
    /\ workers' = [workers EXCEPT ![w] =
                      [pc |-> "write", model |-> model, branch |-> branch_of(shadow_exists)]]
    /\ last' = [op |-> "initialize_check", worker |-> w, model |-> model]
    /\ UNCHANGED <<plugin_api_key, stash>>
    /\ UNCHANGED db_vars

\* The write of an invocation, run on the database's one write connection.
initialize_write(w) ==
    /\ workers[w].pc = "write"
    /\ LET model == workers[w].model
           branch == workers[w].branch
       IN  /\ execute_write_fn(branch, column_name_of(model))
           /\ workers' = [workers EXCEPT ![w] =
                             [pc |-> "done", model |-> model, branch |-> branch,
                              outcome |-> write_outcome(branch)]]
           /\ last' = [op |-> "initialize", model |-> model, branch |-> branch,
                       outcome |-> write_outcome(branch)]
    /\ UNCHANGED <<plugin_api_key, stash>>

(* ----------------------------- credential stash ------------------------ *)

\* stash_api_key, the validator of the API key field; the field is on the
\* form only when the plugin configuration has no api_key. token is what
\* secrets.token_urlsafe(16) returns.
stash_api_key(data, token) ==
    /\ Idle
    /\ plugin_api_key = <<>>
    /\ IF startswith(data, SK_PREFIX)
       THEN /\ stash' = [exists |-> TRUE,
                         keys |-> [k \in DOMAIN stash.keys \cup {token} |->
                                      IF k = token THEN data ELSE stash.keys[k]]]
            /\ last' = [op |-> "stash_api_key", outcome |-> "ok", data |-> token]
       ELSE /\ UNCHANGED stash
            /\ last' = [op |-> "stash_api_key", outcome |-> "rejected", data |-> data]
    /\ UNCHANGED <<plugin_api_key, workers>>
    /\ UNCHANGED db_vars

(* ------------------------------ enrich_batch --------------------------- *)

\* A source row as the dict the caller passes: its columns in order.
row_dict(row) ==
    [i \in 1..Len(source_columns) |-> <<source_columns[i].name, row[source_columns[i].name]>>]

\* Whether SQLite accepts the INSERT: the table and every named column exist.
can_insert(columns) ==
    /\ shadow_exists
    /\ \A c \in Range(columns) : c \in Range(names_of(shadow_columns))

\* An INSERT that replaces nothing: the row with the new row's primary key
\* stays beside the new one.
insert_keeping(rows, columns, values) ==
    LET new == [c \in Range(names_of(shadow_columns)) |->
                   IF c \in Range(columns)
                   THEN values[CHOOSE i \in 1..Len(columns) : columns[i] = c]
                   ELSE NONE]
    IN  rows \cup {new}

\* INSERT OR REPLACE INTO "<shadow>" (columns) VALUES (values): the row that
\* has the new row's primary key is deleted, and the new row holds NULL in
\* every column the statement does not name.
insert_or_replace(rows, columns, values) ==
    LET new == [c \in Range(names_of(shadow_columns)) |->
                   IF c \in Range(columns)
                   THEN values[CHOOSE i \in 1..Len(columns) : columns[i] = c]
                   ELSE NONE]
        conflicts(r) == shadow_pks # <<>> /\ \A p \in Range(shadow_pks) : r[p] = new[p]
    IN  {r \in rows : ~conflicts(r)} \cup {new}

\* The loop of enrich_batch from row i on. acc holds the shadow table's rows
\* and what has been sent, returned and written so far; an exception ends
\* the loop where it is raised.
RECURSIVE enrich_rows(_, _, _, _, _, _)
enrich_rows(rows, pks, config, api_key, responses, acc) ==
    LET i == Len(acc.requests) + 1
    IN  IF i > Len(rows) THEN acc
        ELSE LET text == render(config.template, rows[i])
                 request == [api_key |-> api_key,
                             body |-> request_body(text, config.model)]
                 sent == [acc EXCEPT !.requests = Append(@, request)]
                 combined_columns == pks \o <<column_name_of(config.model)>>
             IN  IF responses[i].status # 200
                 THEN [sent EXCEPT !.outcome = "HTTPStatusError", !.failed = i]
                 ELSE LET encoded_embedding == encode_embedding(responses[i].embedding)
                          values == [k \in 1..Len(pks) |-> dict_get(rows[i], pks[k])]
                                        \o <<BytesV(encoded_embedding)>>
                          got == [sent EXCEPT !.embeddings = Append(@, responses[i].embedding)]
                      IN  IF ~can_insert(combined_columns)
                          THEN [got EXCEPT !.outcome = "OperationalError", !.failed = i]
                          ELSE enrich_rows(rows, pks, config, api_key, responses,
                                   [got EXCEPT
                                       !.shadow_rows =
                                           insert_or_replace(@, combined_columns, values),
                                       !.upserts = Append(@, i)])

\* enrich_batch for the source rows lo..hi, with the config of the job and
\* the service's answers to the requests in order.
batch_rows(lo, hi) == [k \in 1..(hi - lo + 1) |-> row_dict(source_rows[lo + k - 1])]

enrich_batch(lo, hi, config, responses) ==
    LET rows == batch_rows(lo, hi)
        key == resolve_api_key(plugin_api_key, stash, config.api_key)
        start == [shadow_rows |-> shadow_rows, requests |-> <<>>, embeddings |-> <<>>,
                  upserts |-> <<>>, outcome |-> "ok", failed |-> 0]
        ends == {IF key.ok
                 THEN enrich_rows(rows, source_pks, config, key.api_key, responses, start)
                 ELSE [start EXCEPT !.outcome = key.error]}
    IN  /\ Idle
        /\ \E end \in ends :
               /\ shadow_rows' = end.shadow_rows
               /\ last' = [op |-> "enrich_batch", model |-> config.model,
                           template |-> config.template,
                           token |-> config.api_key, lo |-> lo, hi |-> hi,
                           outcome |-> end.outcome,
                           failed |-> end.failed, requests |-> end.requests,
                           embeddings |-> end.embeddings, upserts |-> end.upserts]
        /\ UNCHANGED <<plugin_api_key, stash, workers, source_columns, source_pks,
                       source_rows, shadow_exists, shadow_columns, shadow_pks>>

(* ----------------------------- semantic search ------------------------- *)

\* embeddings_semantic_search for a request with the given method and q
\* field, the service answering `response` if it is asked.
embeddings_semantic_search(method, q_field, response) ==
    LET embedding_columns ==
            embedding_columns_for_table(shadow_exists, names_of(shadow_columns))
        messages == IF embedding_columns = <<>>
                    THEN <<"Table does not have any stored embeddings">> ELSE <<>>
        q == strip(q_field)
        key == resolve_api_key(plugin_api_key, stash, <<>>)
        column_name == embedding_columns[1][1]
        model_name == embedding_columns[1][2]
        request == [api_key |-> key.api_key, body |-> request_body(q, model_name)]
        blob == encode_embedding(response.embedding)
        sql == search_sql(table, column_name, pk_join_of(table, source_pks))
        result ==
            IF method # "POST"
            THEN [outcome |-> "html", messages |-> messages, requests |-> <<>>]
            ELSE IF q = <<>>
            THEN [outcome |-> "redirect", location |-> [to |-> "request.path"],
                  messages |-> Append(messages, "Search query is required"),
                  requests |-> <<>>]
            ELSE IF embedding_columns = <<>>
            \* next() of an empty iterator: the StopIteration leaves the
            \* coroutine as a RuntimeError.
            THEN [outcome |-> "RuntimeError", messages |-> messages, requests |-> <<>>]
            ELSE IF ~key.ok
            THEN [outcome |-> key.error, messages |-> messages, requests |-> <<>>]
            ELSE IF response.status # 200
            THEN [outcome |-> "HTTPStatusError", messages |-> messages,
                  requests |-> <<request>>]
            ELSE [outcome |-> "redirect",
                  location |-> [to |-> "database", sql |-> sql,
                                vector |-> hex_upper(blob), hide_sql |-> 1],
                  column |-> column_name,
                  messages |-> messages, requests |-> <<request>>]
    IN  /\ Idle
        /\ last' = [op |-> "search", method |-> method, q |-> q_field] @@ result
        /\ UNCHANGED <<plugin_api_key, stash, workers>>
        /\ UNCHANGED db_vars

(* ------------------------------- table action -------------------------- *)

\* table_actions and the inner() it returns; can_execute_sql is what
\* permission_allowed(actor, "execute-sql", database) answers.
table_actions(can_execute_sql) ==
    LET key == resolve_api_key(plugin_api_key, stash, <<>>)
        columns_for_table ==
            embedding_columns_for_table(shadow_exists, names_of(shadow_columns))
        actions ==
            IF ~key.ok THEN <<>>
            ELSE IF columns_for_table # <<>> /\ can_execute_sql
            THEN <<[href |-> "/-/semantic-search",
                    label |-> "Semantic search against this table"]>>
            ELSE <<>>
    IN  /\ Idle
        /\ last' = [op |-> "table_actions", can_execute_sql |-> can_execute_sql,
                    actions |-> actions]
        /\ UNCHANGED <<plugin_api_key, stash, workers>>
        /\ UNCHANGED db_vars

(* ----------------------------- specifications -------------------------- *)

\* The configurations of the jobs: a model with a template, and the
\* reference token of the API key if the form asked for one.
Configs ==
    {[model |-> MODEL_1, template |-> TEMPLATE_A, api_key |-> token] : token \in ConfigTokens}
        \cup
    {[model |-> MODEL_4, template |-> TEMPLATE_B, api_key |-> token] : token \in ConfigTokens}

Next ==
    \/ \E model \in ConfigModels : initialize(model)
    \/ \E data \in FieldData : stash_api_key(data, TOKEN_1)
    \/ \E lo \in 1..Len(source_rows), n \in 1..MaxBatch :
           /\ lo + n - 1 <= Len(source_rows)
           /\ \E config \in Configs, responses \in [1..n -> Responses] :
                  enrich_batch(lo, lo + n - 1, config, responses)
    \/ \E response \in Responses :
           embeddings_semantic_search("GET", <<>>, response)
    \/ \E q_field \in Queries, response \in Responses :
           embeddings_semantic_search("POST", q_field, response)
    \/ \E can_execute_sql \in BOOLEAN : table_actions(can_execute_sql)
    \/ return

\* The operations, each run from start to end.
Spec == Init /\ [][Next]_vars

RaceNext ==
    \/ \E w \in Workers, model \in ConfigModels : initialize_check(w, model)
    \/ \E w \in Workers : initialize_write(w)

\* Invocations of initialize interleaved at their awaits.
SpecRace == Init /\ [][RaceNext]_vars

(* -------------------------------- claims ------------------------------- *)

\* Two rows of a table with these primary-key columns hold the same key.
SameKey(r1, r2, pks) == \A p \in Range(pks) : r1[p] = r2[p]

\* The embedding column the last enrich_batch or initialize was run for.
LastColumn == column_name_of(last.model)

\* C1 (as claimed): a vector stored in the column of a model stays as it is
\* under every step that is not an upsert of enrich_batch for that column's
\* own model; an upsert for another model of the same primary key leaves it
\* unchanged.
C1_UpsertLeavesOtherColumns ==
    [][\A r \in shadow_rows : \A c \in DOMAIN r :
           (/\ c \notin Range(shadow_pks)
            /\ r[c] # NONE
            /\ ~(last'.op = "enrich_batch" /\ column_name_of(last'.model) = c))
           => \E r2 \in shadow_rows' : SameKey(r, r2, shadow_pks) /\ r2[c] = r[c]]_vars

\* C2 (as claimed): initialize for a table whose shadow table exists adds
\* the model's BLOB column to the shadow table if it lacks it and adds
\* nothing if it has it; the source table's columns and the values stored
\* in the shadow table stay as they are.
C2_InitializeAddsToShadow ==
    [][(last'.op = "initialize" /\ shadow_exists)
           => LET column == column_name_of(last'.model)
              IN  /\ shadow_columns' =
                         IF column \in Range(names_of(shadow_columns))
                         THEN shadow_columns
                         ELSE Append(shadow_columns, [name |-> column, type |-> "BLOB"])
                  /\ source_columns' = source_columns
                  /\ \A r \in shadow_rows : \E r2 \in shadow_rows' :
                         \A c \in DOMAIN r : r2[c] = r[c]]_vars

\* C3 (as claimed): when the embedding request of one row of a batch fails,
\* every other row of the batch still has its embedding requested and
\* upserted.
C3_FailureLeavesOtherRowsProcessed ==
    (last.op = "enrich_batch" /\ last.outcome = "HTTPStatusError")
        => /\ Len(last.requests) = last.hi - last.lo + 1
           /\ \A k \in 1..(last.hi - last.lo + 1) :
                  k # last.failed => k \in Range(last.upserts)

\* The operations that resolve an API key, as the last operation.
IsEnrichBatch == last.op = "enrich_batch"

IsSearchPost == last.op = "search" /\ last.method = "POST"

\* config.get("api_key") of the last operation: the job's reference token;
\* the search passes an empty config.
LastToken == IF last.op = "enrich_batch" THEN last.token ELSE <<>>

\* No API key is resolvable for an invocation carrying this reference
\* token: the plugin configuration has no api_key and the token is missing
\* or unknown to the stash.
NoKeyResolvable(token) ==
    /\ plugin_api_key = <<>>
    /\ \/ token = <<>>
       \/ ~stash.exists
       \/ token \notin DOMAIN stash.keys

\* The step ends with the credential error, no request sent and the
\* database as it was.
FailsFastOnCredentials ==
    /\ last'.outcome = "ApiKeyError"
    /\ last'.requests = <<>>
    /\ UNCHANGED db_vars

\* Every request the step sent carries the plugin configuration's api_key.
UsesPluginKey ==
    \A k \in 1..Len(last'.requests) : last'.requests[k].api_key = plugin_api_key

SearchReachesKey ==
    /\ strip(last'.q) # <<>>
    /\ embedding_columns_for_table(shadow_exists, names_of(shadow_columns)) # <<>>

ShadowRowsOf(row) ==
    {r \in shadow_rows : \A p \in Range(source_pks) : r[p] = row[p]}

\* C5: no two rows of the shadow table hold the same primary key, and after
\* an enrich_batch that ended without error each row of the batch has
\* exactly one shadow row, holding the source row's value in each
\* primary-key column and, in the model's column, a blob of 4 bytes per
\* component of the vector returned for that row.
C5_OneRowPerKeyFourBytesPerComponent ==
    /\ \A r1, r2 \in shadow_rows : SameKey(r1, r2, shadow_pks) => r1 = r2
    /\ (IsEnrichBatch /\ last.outcome = "ok")
           => \A k \in 1..(last.hi - last.lo + 1) :
                  LET stored == ShadowRowsOf(source_rows[last.lo + k - 1])
                  IN  /\ Cardinality(stored) = 1
                      /\ \A r \in stored :
                             /\ r[LastColumn].t = "bytes"
                             /\ Len(r[LastColumn].b) = 4 * Len(last.embeddings[k])

\* C5 witness: a batch of two rows of a table with a compound primary key
\* has been enriched without error, with vectors of different lengths.
C5_Witness ==
    /\ IsEnrichBatch
    /\ last.outcome = "ok"
    /\ last.hi > last.lo
    /\ Len(source_pks) = 2
    /\ Len(last.embeddings[1]) # Len(last.embeddings[2])
    /\ Cardinality(shadow_rows) = 2

\* The shadow table has the column that initialize and enrich_batch name
\* for one of the supported models.
HasColumnOfSupportedModel ==
    /\ shadow_exists
    /\ \E m \in Range(MODEL_NAMES) : column_name_of(m) \in Range(names_of(shadow_columns))

\* C6 (as claimed): the table action is offered exactly when the plugin
\* configuration resolves an API key, the shadow table exists with the
\* column of at least one supported model, and the actor may execute SQL.
C6_ActionOfferedExactlyWhen ==
    last.op = "table_actions"
        => (last.actions # <<>>
                <=> /\ plugin_api_key # <<>>
                    /\ HasColumnOfSupportedModel
                    /\ last.can_execute_sql)

\* The join predicates test_similarity_search expects for the primary keys
\* (id) and (category, id).
ON_SINGLE ==
    <<"i", "t", "e", "m", "s", ".", "i", "d", " ", "=", " ", "_", "e", "m", "b", "e", "d",
    "d", "i", "n", "g", "s", "_", "i", "t", "e", "m", "s", ".", "i", "d">>

ON_COMPOUND ==
    <<"i", "t", "e", "m", "s", ".", "c", "a", "t", "e", "g", "o", "r", "y", " ", "=", " ",
    "_", "e", "m", "b", "e", "d", "d", "i", "n", "g", "s", "_", "i", "t", "e", "m", "s",
    ".", "c", "a", "t", "e", "g", "o", "r", "y", " ", "a", "n", "d", " ", "i", "t", "e",
    "m", "s", ".", "i", "d", " ", "=", " ", "_", "e", "m", "b", "e", "d", "d", "i", "n",
    "g", "s", "_", "i", "t", "e", "m", "s", ".", "i", "d">>

SQL_1 ==
    <<"s", "e", "l", "e", "c", "t", "\n", " ", " ", "\"">>

SQL_2 ==
    <<"\"", ".", "*", ",", "\n", " ", " ", "e", "m", "b", "e", "d", "d", "i", "n", "g", "s",
    "_", "c", "o", "s", "i", "n", "e", "(", "\"", "_", "e", "m", "b", "e", "d", "d", "i",
    "n", "g", "s", "_">>

SQL_3 ==
    <<"\"", ".", "\"">>

SQL_4 ==
    <<"\"", ",", " ", "u", "n", "h", "e", "x", "(", ":", "v", "e", "c", "t", "o", "r", ")",
    ")", " ", "a", "s", " ", "_", "s", "i", "m", "i", "l", "a", "r", "i", "t", "y", "\n",
    "f", "r", "o", "m", " ", "\"">>

SQL_5 ==
    <<"\"", " ", "j", "o", "i", "n", " ", "\"", "_", "e", "m", "b", "e", "d", "d", "i", "n",
    "g", "s", "_">>

SQL_6 ==
    <<"\"", "\n", "o", "n", " ">>

SQL_7 ==
    <<"\n", "w", "h", "e", "r", "e", " ", "\"", "_", "e", "m", "b", "e", "d", "d", "i", "n",
    "g", "s", "_">>

SQL_8 ==
    <<"\"", " ", "i", "s", " ", "n", "o", "t", " ", "n", "u", "l", "l", "\n", "o", "r", "d",
    "e", "r", " ", "b", "y", " ", "_", "s", "i", "m", "i", "l", "a", "r", "i", "t", "y",
    " ", "d", "e", "s", "c">>

\* The query test_similarity_search expects, for a table, an embedding
\* column and a join predicate.
sql_expected(t, column, on_sql) ==
    SQL_1 \o t \o SQL_2 \o t \o SQL_3 \o column \o SQL_4 \o t \o SQL_5 \o t
        \o SQL_6 \o on_sql \o SQL_7 \o t \o SQL_3 \o column \o SQL_8

\* One equality per primary-key column, in the order of the key, joined
\* by " and ".
RECURSIVE on_expected(_, _)
on_expected(t, pks) ==
    LET first == t \o <<".">> \o pks[1] \o <<" ", "=", " ">>
                     \o <<"_", "e", "m", "b", "e", "d", "d", "i", "n", "g", "s", "_">>
                     \o t \o <<".">> \o pks[1]
    IN  IF Len(pks) = 1 THEN first
        ELSE first \o <<" ", "a", "n", "d", " ">> \o on_expected(t, Tail(pks))

\* The search POST ended with the redirect to the database page.
RedirectsToQuery ==
    /\ IsSearchPost
    /\ last.outcome = "redirect"
    /\ last.location.to = "database"

\* C7: the query of the redirect is the expected text for the source table,
\* its primary-key columns in declared order and the chosen column, and
\* nothing else: the join predicate is one equality per primary-key column
\* joined by " and ", which for (id) and (category, id) are the texts the
\* test expects.
C7_SearchQueryJoinsOnEachKeyColumn ==
    RedirectsToQuery
        => /\ last.location.sql =
                  sql_expected(table, last.column, on_expected(table, source_pks))
           /\ source_pks = <<T_id>> => on_expected(table, source_pks) = ON_SINGLE
           /\ source_pks = <<T_category, T_id>>
                  => on_expected(table, source_pks) = ON_COMPOUND

\* C7 witness: a search of a table with the primary key (category, id) has
\* been redirected to its query.
C7_Witness ==
    /\ RedirectsToQuery
    /\ source_pks = <<T_category, T_id>>
    /\ last.q = Q_TEXT

\* The template with each placeholder of a row field replaced by the
\* stringified value, or by the empty string if and only if the value is
\* null.
RECURSIVE render_null_as_empty(_, _)
render_null_as_empty(text, items) ==
    IF items = <<>> THEN text
    ELSE LET key == items[1][1]
             value == IF items[1][2] = NONE THEN <<>> ELSE py_str(items[1][2])
         IN  render_null_as_empty(
                 replace(replace(text, BRACES_OPEN_SP \o key \o BRACES_CLOSE_SP, value),
                         BRACES_OPEN \o key \o BRACES_CLOSE, value),
                 Tail(items))

\* C8 (as claimed): the text enrich_batch sends for a row is the template
\* with each placeholder of a row field, in either spelling, replaced by
\* the stringified value, and by the empty string only for null; the
\* placeholders of no field stay in the text.
C8_RenderEmptyOnlyForNull ==
    IsEnrichBatch
        => \A k \in 1..Len(last.requests) :
               last.requests[k].body.input =
                   render_null_as_empty(last.template,
                                        row_dict(source_rows[last.lo + k - 1]))

\* C9 (as claimed): embedding_columns_for_table returns nothing without a
\* shadow table, and otherwise exactly the shadow table's columns named
\* "emb_" plus a supported model with hyphens as underscores, each with
\* that model; and the column named for a supported model maps back to it.
C9_ListsExactlyTheDerivedColumns ==
    LET columns == names_of(shadow_columns)
        listed == embedding_columns_for_table(shadow_exists, columns)
    IN  /\ ~shadow_exists => listed = <<>>
        /\ shadow_exists
               => Range(listed) =
                      {<<column_name_of(m), m>> :
                          m \in {n \in Range(MODEL_NAMES) :
                                    column_name_of(n) \in Range(columns)}}
        /\ \A m \in Range(MODEL_NAMES) : model_of_column(column_name_of(m)) = m

\* C10 (as claimed): two invocations of initialize for the same model, at
\* least one of which found no shadow table, both end without error and
\* leave the shadow table with the source table's primary-key columns and
\* the model's column.
C10_RacingInitializeBothSucceed ==
    \A w1, w2 \in Workers :
        (/\ w1 # w2
         /\ workers[w1].pc = "done"
         /\ workers[w2].pc = "done"
         /\ workers[w1].model = workers[w2].model
         /\ workers[w1].branch = "create")
        => /\ workers[w1].outcome = "ok"
           /\ workers[w2].outcome = "ok"
           /\ shadow_exists
           /\ names_of(shadow_columns)
                  = source_pks \o <<column_name_of(workers[w1].model)>>

\* The columns embedding_columns_for_table lists for the table.
ListedColumns == embedding_columns_for_table(shadow_exists, names_of(shadow_columns))

\* C11 (as claimed): a semantic-search POST whose query is empty once
\* trimmed ends in the "Search query is required" message and the redirect
\* back to the search page; one with a query on a table without listed
\* embedding columns ends in a normal response carrying the "Table does not
\* have any stored embeddings" message, not in an exception; and in both
\* cases no key is resolved and no embedding request is sent.
C11_SearchPostValidatesBeforeProceeding ==
    IsSearchPost
        => /\ strip(last.q) = <<>>
                  => /\ last.outcome = "redirect"
                     /\ last.location = [to |-> "request.path"]
                     /\ "Search query is required" \in Range(last.messages)
           /\ (strip(last.q) # <<>> /\ ListedColumns = <<>>)
                  => /\ last.outcome \in {"html", "redirect"}
                     /\ "Table does not have any stored embeddings"
                            \in Range(last.messages)
           /\ (strip(last.q) = <<>> \/ ListedColumns = <<>>)
                  => /\ last.requests = <<>>
                     /\ last.outcome # "ApiKeyError"
====
